---- MODULE Spec2Model ----
(***************************************************************************)
(* Session orchestration of the WebSocket remote-browser server            *)
(* (src/unnamed/part_002): the shared browser and its lazy launch, the     *)
(* session registry, the message dispatcher, the streaming loop, the       *)
(* session cleanup, the heartbeat and the idle sweep.                      *)
(*                                                                         *)
(* JavaScript runs one handler at a time and gives up control only at an   *)
(* await.  Each action below is therefore one run of a handler or of a     *)
(* continuation, from where it is resumed up to the next await that waits  *)
(* for the outside world (a puppeteer call, a timer).  An await of an      *)
(* already settled promise resumes in the microtask queue, before any      *)
(* other event or timer is served, and is part of the same action.         *)
(*                                                                         *)
(* The clock `now` and lastActivity are counted in minutes.                *)
(***************************************************************************)
EXTENDS Integers, Sequences, FiniteSets, Bags, TLC

\* ---- bounds of the model -------------------------------------------------
NumConns    == 2   \* WebSocket connections
MaxMsgs     == 3   \* messages received over all connections
MaxCleanups == 2   \* page.close calls pending when a timer starts another
MaxLaunch   == 2   \* puppeteer.launch calls: the last one succeeds and stays connected
MaxTime     == 21  \* the clock stops here
MaxUrlLen   == 3   \* pieces in the url of a navigate message

\* ---- program constants ---------------------------------------------------
MAX_SESSIONS == 1
IDLE_LIMIT   == 20
SESSION_TIMEOUT == 15   \* server.js line 259, in minutes

Conns == 1..NumConns

\* lines 210-230: the actions that await a call on the page
PageActions == {"navigate", "click", "scroll", "type", "back", "forward"}

\* the page actions the modelled clients send
SentActions == {"navigate", "type"}

\* the payloads the modelled clients send with an action: the fields the
\* action needs (url; x and y; text), or none of them
Payloads == {"valid", "missing"}

\* the amounts by which the clock advances: up to the idle limit, and past it
TickSteps == {IDLE_LIMIT, IDLE_LIMIT + 1}

VARIABLES
  browser,             \* the shared handle: 0 = null, k = handle of the k-th launch
  browserConnected,    \* browser.isConnected() of the current handle
  browserInitializing, \* the flag of ensureBrowser
  sessions,            \* the registry Map: ws -> session (0 = no entry)
  sess,                \* the session objects ever built, in creation order
  pages,               \* the pages ever opened, in creation order
  wsState,             \* ws.readyState
  isAlive,             \* ws.isAlive
  tasks,               \* bag of async calls suspended at an await
  now,                 \* Date.now()
  out,                 \* what the last step received and sent
  nLaunch,             \* puppeteer.launch calls made so far
  returned,            \* handles ensureBrowser has returned so far
  closeStarted,        \* sessions whose cleanup was started by the close action
  torn,                \* sessions whose cleanupSession ran to its end, or whose
                       \* registry entry a cleanupSession deleted
  nMsgs,               \* messages and requests received so far
  httpSessions,        \* server.js: the ids in the registry Map (line 256)
  httpSess,            \* server.js: the session objects ever built; the id of
                       \* a session is its place in this sequence
  httpTimers,          \* server.js: the timers ever set by setTimeout (line 489)
  legacy               \* the servers with an unguarded module-level browser,
                       \* each with one client: their browser, launch count,
                       \* session objects, registry and socket

vars == <<browser, browserConnected, browserInitializing, sessions, sess,
          pages, wsState, isAlive, tasks, now, out, nLaunch, returned,
          closeStarted, torn, nMsgs, httpSessions, httpSess, httpTimers, legacy>>

browserVars == <<browser, browserConnected, browserInitializing, nLaunch, returned>>
histVars    == <<closeStarted, torn>>
httpVars    == <<httpSessions, httpSess, httpTimers>>

\* the state of the WebSocket server
wsVars == <<browser, browserConnected, browserInitializing, sessions, sess,
            pages, wsState, isAlive, nLaunch, returned, closeStarted, torn>>

\* ---- helpers -------------------------------------------------------------
\* `out` observes the last step: the action of the message it handled ("" when
\* the step is not the arrival of a message) and the record or frame it sent
NoOut == [ws |-> 0, msg |-> "", kind |-> "none", s |-> 0, text |-> ""]
Send(c, k, s) == [ws |-> c, msg |-> "", kind |-> k, s |-> s, text |-> ""]
Recv(c, a, o) == [o EXCEPT !.ws = c, !.msg = a]

\* ws.send transmits only on an OPEN socket
WsSend(c, k, s) == IF wsState[c] = "OPEN" THEN Send(c, k, s) ELSE NoOut

Task(fn, pc, c, s, p, b, arg) ==
  [fn |-> fn, pc |-> pc, ws |-> c, s |-> s, page |-> p, b |-> b, arg |-> arg]

AddTask(bag, t) == bag (+) SetToBag({t})
DelTask(bag, t) == bag (-) SetToBag({t})
Running == BagToSet(tasks)

RECURSIVE Copies(_)
Copies(S) ==
  IF S = {} THEN 0
  ELSE LET t == CHOOSE x \in S : TRUE
       IN CopiesIn(t, tasks) + Copies(S \ {t})

\* lines 192 and 198: an error record with its message
ErrSend(c, text) ==
  IF wsState[c] = "OPEN"
    THEN [ws |-> c, msg |-> "", kind |-> "error", s |-> 0, text |-> text]
    ELSE NoOut

\* line 198
NoSessionReply_silent(c) == NoOut
NoSessionReply(c) == ErrSend(c, "No active session")

\* a message is delivered to an OPEN socket
CanReceive(c) == wsState[c] = "OPEN" /\ nMsgs < MaxMsgs

\* sessions.size
RegistrySize == Cardinality({c \in Conns : sessions[c] # 0})

\* the HTTP server of server.js after start-up (line 256)
\* the servers that keep the engine in a module-level browser variable and
\* launch it without a guard: the first server of server.js (launchBrowser),
\* part_005 (getBrowser), part_007 and part_008 (ensureBrowser)
Servers == {"server.js", "part_005", "part_007", "part_008"}

\* those of them whose stream loop tests the socket only
Streamers == {"part_007", "part_008"}

\* such a server after start-up, its client connected
LegacyStarted ==
  legacy = [srv \in Servers |->
              [browser |-> 0, launches |-> 0, sess |-> <<>>, entry |-> {}, open |-> TRUE]]

HttpStarted ==
  /\ httpSessions = {}
  /\ httpSess = << >>
  /\ httpTimers = << >>

\* the server after start-up with the connections of Open accepted
\* (lines 34-35, 111, 174-176)
Started(Open) ==
  /\ browser = 0
  /\ browserConnected = FALSE
  /\ browserInitializing = FALSE
  /\ sessions = [c \in Conns |-> 0]
  /\ sess = << >>
  /\ pages = << >>
  /\ wsState = [c \in Conns |-> IF c \in Open THEN "OPEN" ELSE "CLOSED"]
  /\ isAlive = [c \in Conns |-> TRUE]
  /\ tasks = EmptyBag
  /\ now = 0
  /\ out = NoOut
  /\ nLaunch = 0
  /\ returned = {}
  /\ closeStarted = {}
  /\ torn = {}
  /\ nMsgs = 0
  /\ HttpStarted
  /\ LegacyStarted

\* ---- ensureBrowser -------------------------------------------------------
\* line 38: browser && browser.isConnected()
BrowserReady_stale == browser # 0
BrowserReady == browser # 0 /\ browserConnected

\* line 39: a caller that finds the flag set polls it
WaitForInit_never == FALSE
WaitForInit == browserInitializing

\* line 42: after the wait, a caller that finds a connected browser returns it
ReadyAfterWait_never == FALSE
ReadyAfterWait == BrowserReady

\* ensureBrowser up to its first await, for the create call t of createSession.
\* When it returns at once, createSession goes on to b.newPage().
ensureBrowser(t) ==
  IF BrowserReady
    THEN /\ tasks' = AddTask(tasks, [t EXCEPT !.pc = "newPage", !.b = browser])
         /\ returned' = returned \cup {browser}
         /\ UNCHANGED <<browser, browserConnected, browserInitializing, nLaunch>>
    ELSE IF WaitForInit
      THEN /\ tasks' = AddTask(tasks, [t EXCEPT !.pc = "waitInit", !.arg = "waited"])
           /\ UNCHANGED browserVars
      ELSE /\ browserInitializing' = TRUE
           /\ tasks' = AddTask(tasks, [t EXCEPT !.pc = "executablePath"])
           /\ UNCHANGED <<browser, browserConnected, nLaunch, returned>>

\* line 41: the condition that ends the polling
InitOver_never == FALSE
InitOver == ~browserInitializing

\* lines 41-44: the 100 ms poll finds the flag cleared (while it is set the
\* poll only sets its timer again)
PollInit(t) ==
  /\ t \in Running /\ t.fn = "create" /\ t.pc = "waitInit"
  /\ InitOver
  /\ IF ReadyAfterWait
       THEN /\ tasks' = AddTask(DelTask(tasks, t), [t EXCEPT !.pc = "newPage", !.b = browser])
            /\ returned' = returned \cup {browser}
            /\ UNCHANGED <<browser, browserConnected, browserInitializing, nLaunch>>
       ELSE /\ browserInitializing' = TRUE
            /\ tasks' = AddTask(DelTask(tasks, t), [t EXCEPT !.pc = "executablePath"])
            /\ UNCHANGED <<browser, browserConnected, nLaunch, returned>>
  /\ out' = NoOut
  /\ UNCHANGED <<sessions, sess, pages, wsState, isAlive, histVars, now, nMsgs>>
  /\ UNCHANGED <<httpVars, legacy>>

\* lines 78 and 82: the flag when the initialization ends, well or not
FlagAfterInit_cached(ok) == ~ok
FlagAfterInit(ok) == FALSE

\* lines 49-53 and 80-84: chromium.executablePath() settles
ExecPathDone(t, ok) ==
  /\ t \in Running /\ t.fn = "create" /\ t.pc = "executablePath"
  /\ IF ok
       THEN /\ nLaunch' = nLaunch + 1
            /\ tasks' = AddTask(DelTask(tasks, t), [t EXCEPT !.pc = "launch", !.b = nLaunch + 1])
            /\ out' = NoOut
            /\ UNCHANGED browserInitializing
       ELSE /\ browserInitializing' = FlagAfterInit(FALSE)
            /\ tasks' = DelTask(tasks, t)
            /\ out' = ErrSend(t.ws, "create failed")
            /\ UNCHANGED nLaunch
  /\ UNCHANGED <<browser, browserConnected, returned, sessions, sess, pages,
                 wsState, isAlive, histVars, now, nMsgs>>
  /\ UNCHANGED <<httpVars, legacy>>

\* lines 53-84: puppeteer.launch settles
LaunchDone(t, ok) ==
  /\ t \in Running /\ t.fn = "create" /\ t.pc = "launch"
  /\ IF ok
       THEN /\ browser' = t.b
            /\ browserConnected' = TRUE
            /\ returned' = returned \cup {t.b}
            /\ tasks' = AddTask(DelTask(tasks, t), [t EXCEPT !.pc = "newPage"])
            /\ out' = NoOut
       ELSE /\ nLaunch < MaxLaunch
            /\ tasks' = DelTask(tasks, t)
            /\ out' = ErrSend(t.ws, "create failed")
            /\ UNCHANGED <<browser, browserConnected, returned>>
  /\ browserInitializing' = FlagAfterInit(ok)
  /\ UNCHANGED <<nLaunch, sessions, sess, pages, wsState, isAlive, histVars, now, nMsgs>>
  /\ UNCHANGED <<httpVars, legacy>>

\* the browser process dies or its connection drops
BrowserDisconnect ==
  /\ BrowserReady
  /\ nLaunch < MaxLaunch
  /\ browserConnected' = FALSE
  /\ out' = NoOut
  /\ UNCHANGED <<browser, browserInitializing, nLaunch, returned, sessions, sess,
                 pages, wsState, isAlive, tasks, histVars, now, nMsgs>>
  /\ UNCHANGED <<httpVars, legacy>>

\* ---- createSession -------------------------------------------------------
\* line 115: the capacity check
AtCapacity_never == FALSE
AtCapacity == RegistrySize >= MAX_SESSIONS

\* lines 131-132: the session object, and its entry in the registry
NewSession(t) == [ws |-> t.ws, page |-> t.page, streaming |-> FALSE, lastActivity |-> now]

\* lines 179-195 and 114-119: a create message; createSession runs up to its
\* first await, inside ensureBrowser or at b.newPage()
MsgCreate(c) ==
  /\ CanReceive(c)
  /\ nMsgs' = nMsgs + 1
  /\ IF AtCapacity
       THEN /\ out' = Recv(c, "create", ErrSend(c, "Maximum sessions reached"))
            /\ UNCHANGED <<tasks, browserVars>>
       ELSE /\ ensureBrowser(Task("create", "call", c, 0, 0, 0, "direct"))
            /\ out' = Recv(c, "create", NoOut)
  /\ UNCHANGED <<sessions, sess, pages, wsState, isAlive, histVars, now>>
  /\ UNCHANGED <<httpVars, legacy>>

\* line 120: the page that b.newPage() returns is a new one
NewPageId_reused == IF pages = <<>> THEN Len(pages) + 1 ELSE Len(pages)
NewPageId == Len(pages) + 1

\* lines 120-122: b.newPage() settles; a rejection leaves createSession and is
\* reported by the handler's catch (lines 191-193)
NewPageDone(t, ok) ==
  /\ t \in Running /\ t.fn = "create" /\ t.pc = "newPage"
  /\ IF ok
       THEN /\ t.b = browser /\ browserConnected
            /\ pages' = Append(pages, [closed |-> FALSE, owner |-> t.ws, closeCalls |-> 0])
            /\ tasks' = AddTask(DelTask(tasks, t),
                                [t EXCEPT !.pc = "setViewport", !.page = NewPageId])
            /\ out' = NoOut
       ELSE /\ tasks' = DelTask(tasks, t)
            /\ out' = ErrSend(t.ws, "create failed")
            /\ UNCHANGED pages
  /\ UNCHANGED <<browserVars, sessions, sess, wsState, isAlive, histVars, now, nMsgs>>
  /\ UNCHANGED <<httpVars, legacy>>

\* lines 122-135 and 189-194: page.setViewport and page.setRequestInterception
\* settle.  Between the two awaits createSession reads and writes nothing but
\* its own new page, so they are one step.  When both succeed the session is
\* built and registered and the client is told; a rejection of either leaves
\* createSession with the page still open.
PageConfigured(t, ok) ==
  /\ t \in Running /\ t.fn = "create" /\ t.pc = "setViewport"
  /\ IF ok
       THEN /\ sess' = Append(sess, NewSession(t))
            /\ sessions' = [sessions EXCEPT ![t.ws] = Len(sess) + 1]
            /\ out' = WsSend(t.ws, "info", Len(sess) + 1)
       ELSE /\ out' = ErrSend(t.ws, "create failed")
            /\ UNCHANGED <<sess, sessions>>
  /\ tasks' = DelTask(tasks, t)
  /\ UNCHANGED <<browserVars, pages, wsState, isAlive, histVars, now, nMsgs>>
  /\ UNCHANGED <<httpVars, legacy>>

\* ---- startStream ---------------------------------------------------------
\* line 139: a session that is already streaming is left alone
AlreadyStreaming_never(s) == FALSE
AlreadyStreaming(s) == sess[s].streaming

\* line 146: the loop condition
LoopCond(flag, c) == flag /\ wsState[c] = "OPEN"

\* lines 157-158: the finally block of the loop
LoopEnded_flagKept(ss, s) == ss
LoopEnded(ss, s) == [ss EXCEPT ![s].streaming = FALSE]

\* line 152: the warning logged when page.screenshot rejects
Warn(s) == [ws |-> 0, msg |-> "", kind |-> "warn", s |-> s, text |-> "Screenshot error"]

LoopTask(s, pc) == Task("startStream", pc, sess[s].ws, s, sess[s].page, 0, "loop")

\* lines 138-148 on session s whose other fields are those of ss: up to the
\* first page.screenshot
startStream(ss, s) ==
  IF AlreadyStreaming(s)
    THEN /\ sess' = ss
         /\ UNCHANGED tasks
    ELSE IF LoopCond(TRUE, sess[s].ws)
      THEN /\ sess' = [ss EXCEPT ![s].streaming = TRUE]
           /\ tasks' = AddTask(tasks, LoopTask(s, "screenshot"))
      ELSE /\ sess' = LoopEnded(ss, s)
           /\ UNCHANGED tasks

\* line 202
Touch_stale(s) == sess
Touch(s) == [sess EXCEPT ![s].lastActivity = now]

\* lines 179-209: a startStream message
MsgStartStream(c) ==
  /\ CanReceive(c)
  /\ nMsgs' = nMsgs + 1
  /\ IF sessions[c] = 0
       THEN /\ out' = Recv(c, "startStream", NoSessionReply(c))
            /\ UNCHANGED <<sess, tasks>>
       ELSE /\ startStream(Touch(sessions[c]), sessions[c])
            /\ out' = Recv(c, "startStream", NoOut)
  /\ UNCHANGED <<browserVars, sessions, pages, wsState, isAlive, histVars, now>>
  /\ UNCHANGED <<httpVars, legacy>>

\* line 150: the session objects ss after a capture for session s
Captured_untouched(ss, s) == ss
Captured(ss, s) == [ss EXCEPT ![s].lastActivity = now]

\* lines 148-158: page.screenshot settles; a rejection leaves the loop through
\* break and the finally block
ScreenshotDone(t, ok) ==
  /\ t \in Running /\ t.fn = "startStream" /\ t.pc = "screenshot"
  /\ IF ok
       THEN /\ ~pages[t.page].closed
            /\ out' = WsSend(t.ws, "frame", t.s)
            /\ sess' = Captured(sess, t.s)
            /\ tasks' = AddTask(DelTask(tasks, t), [t EXCEPT !.pc = "sleep"])
       ELSE /\ out' = Warn(t.s)
            /\ sess' = LoopEnded(sess, t.s)
            /\ tasks' = DelTask(tasks, t)
  /\ UNCHANGED <<browserVars, sessions, pages, wsState, isAlive, histVars, now, nMsgs>>
  /\ UNCHANGED <<httpVars, legacy>>

\* lines 155-160 and 146: the interval timer fires and the loop condition is
\* evaluated again
SleepDone(t) ==
  /\ t \in Running /\ t.fn = "startStream" /\ t.pc = "sleep"
  /\ IF LoopCond(sess[t.s].streaming, t.ws)
       THEN /\ tasks' = AddTask(DelTask(tasks, t), [t EXCEPT !.pc = "screenshot"])
            /\ UNCHANGED sess
       ELSE /\ sess' = LoopEnded(sess, t.s)
            /\ tasks' = DelTask(tasks, t)
  /\ out' = NoOut
  /\ UNCHANGED <<browserVars, sessions, pages, wsState, isAlive, histVars, now, nMsgs>>
  /\ UNCHANGED <<httpVars, legacy>>

\* ---- cleanupSession ------------------------------------------------------
\* line 168: s.page && !s.page.isClosed(), for the registry entry of ws
NeedsClose(w) == sessions[w] # 0 /\ ~pages[sess[sessions[w]].page].closed

CleanupTask(w, origin) ==
  Task("cleanupSession", "page.close", w, sessions[w], sess[sessions[w]].page, 0, origin)

\* cleanupSession (lines 164-168) called in one handler run for each ws of W,
\* up to the await of page.close: the session objects, the pages, the
\* suspended calls and the registry afterwards.  A session whose page is
\* already closed is deleted at once (line 169).
CsSess(ss, W) ==
  [i \in DOMAIN ss |->
     IF \E w \in W : sessions[w] = i THEN [ss[i] EXCEPT !.streaming = FALSE] ELSE ss[i]]

CsPages(W) ==
  [p \in DOMAIN pages |->
     IF \E w \in W : NeedsClose(w) /\ sess[sessions[w]].page = p
       THEN [pages[p] EXCEPT !.closeCalls = @ + 1]
       ELSE pages[p]]

CsTasks(W, origin) ==
  tasks (+) SetToBag({CleanupTask(w, origin) : w \in {x \in W : NeedsClose(x)}})

CsSessions(W) ==
  [w \in Conns |->
     IF w \in W /\ sessions[w] # 0 /\ ~NeedsClose(w) THEN 0 ELSE sessions[w]]

CsTorn(W) == torn \cup {sessions[w] : w \in {x \in W : sessions[x] # 0 /\ ~NeedsClose(x)}}

cleanupSession(ss, W, origin) ==
  /\ sess' = CsSess(ss, W)
  /\ pages' = CsPages(W)
  /\ tasks' = CsTasks(W, origin)
  /\ sessions' = CsSessions(W)
  /\ torn' = CsTorn(W)

\* the model's room for the page.close calls that cleanupSession of W makes
Closing == {t \in Running : t.fn = "cleanupSession"}
Room(W) == Copies(Closing) + Cardinality({w \in W : NeedsClose(w)}) <= MaxCleanups

\* ws.close() and ws.terminate(): an OPEN socket starts closing; its close
\* event comes later
WsShut(W) == [c \in Conns |-> IF c \in W /\ wsState[c] = "OPEN" THEN "CLOSING" ELSE wsState[c]]

\* lines 168-171 and 232-233: page.close settles (a rejection is swallowed);
\* the entry of ws is deleted, and the close action then closes the socket
PageCloseDone(t, ok) ==
  /\ t \in Running /\ t.fn = "cleanupSession"
  /\ pages' = IF ok THEN [pages EXCEPT ![t.page].closed = TRUE] ELSE pages
  /\ sessions' = [sessions EXCEPT ![t.ws] = 0]
  /\ torn' = torn \cup {t.s} \cup ({sessions[t.ws]} \ {0})
  /\ wsState' = IF t.arg = "close" THEN WsShut({t.ws}) ELSE wsState
  /\ tasks' = DelTask(tasks, t)
  /\ out' = NoOut
  /\ UNCHANGED <<browserVars, sess, isAlive, closeStarted, now, nMsgs>>
  /\ UNCHANGED <<httpVars, legacy>>

\* ---- the other control messages ------------------------------------------
\* lines 179-233: the close action
MsgClose(c) ==
  /\ CanReceive(c)
  /\ nMsgs' = nMsgs + 1
  /\ IF sessions[c] = 0
       THEN /\ out' = Recv(c, "close", NoSessionReply(c))
            /\ UNCHANGED <<sess, pages, tasks, sessions, histVars, wsState>>
       ELSE /\ cleanupSession(Touch(sessions[c]), {c}, "close")
            /\ closeStarted' = closeStarted \cup {sessions[c]}
            /\ wsState' = IF NeedsClose(c) THEN wsState ELSE WsShut({c})
            /\ out' = Recv(c, "close", NoOut)
  /\ UNCHANGED <<browserVars, isAlive, now>>
  /\ UNCHANGED <<httpVars, legacy>>

\* lines 210-230: whether the case of action a calls the page for payload p.
\* navigate turns a missing url into "https://" (lines 211-212), click rounds
\* its missing x and y to NaN (line 217), scroll turns a missing dy into 0
\* (line 220): each of them calls the page whatever the payload.  Only type
\* tests its field (line 223).
CallsPage_always(a, p) == TRUE
CallsPage(a, p) == a = "type" => p = "valid"

\* lines 179-230: navigate, click, scroll, type, back or forward with payload
\* p; the page call is awaited with its rejection swallowed
MsgCommand(c, a, p) ==
  /\ CanReceive(c)
  /\ nMsgs' = nMsgs + 1
  /\ IF sessions[c] = 0
       THEN /\ out' = Recv(c, a, NoSessionReply(c))
            /\ UNCHANGED <<sess, tasks>>
       ELSE /\ sess' = Touch(sessions[c])
            /\ tasks' = IF CallsPage(a, p)
                          THEN AddTask(tasks, Task("command", a, c, sessions[c],
                                                   sess[sessions[c]].page, 0, "page"))
                          ELSE tasks
            /\ out' = Recv(c, a, NoOut)
  /\ UNCHANGED <<browserVars, sessions, pages, wsState, isAlive, histVars, now>>
  /\ UNCHANGED <<httpVars, legacy>>

\* lines 213-235: the page call of a command settles and the handler returns;
\* a rejection or a timeout (ok = FALSE) is swallowed by .catch(() => {})
CommandDone(t, ok) ==
  /\ t \in Running /\ t.fn = "command"
  /\ tasks' = DelTask(tasks, t)
  /\ out' = NoOut
  /\ UNCHANGED <<browserVars, sessions, sess, pages, wsState, isAlive, histVars, now, nMsgs>>
  /\ UNCHANGED <<httpVars, legacy>>

\* The url of a navigate message, as a sequence of pieces of text: scheme
\* names in either case, the letter s, the separator and a host name.
UrlPieces == {"http", "HTTP", "ftp", "s", "://", "example.com"}
Urls == UNION {[1..n -> UrlPieces] : n \in 0..MaxUrlLen}

\* the text of a url: its pieces joined
RECURSIVE Str(_)
Str(u) == IF u = <<>> THEN "" ELSE Head(u) \o Str(Tail(u))

\* line 212: /^https?:\/\//i.test(url)
HttpScheme(u) ==
  /\ Len(u) >= 2
  /\ u[1] \in {"http", "HTTP"}
  /\ \/ u[2] = "://"
     \/ Len(u) >= 3 /\ u[2] = "s" /\ u[3] = "://"

\* lines 211-213: the url page.goto is called with
Target(u) == IF HttpScheme(u) THEN Str(u) ELSE "https://" \o Str(u)

\* lines 179-215: a navigate message with url u, up to the await of
\* page.goto; the call and its argument are the last thing observed
MsgNavigate(c, u) ==
  /\ CanReceive(c)
  /\ nMsgs' = nMsgs + 1
  /\ IF sessions[c] = 0
       THEN /\ out' = Recv(c, "navigate", NoSessionReply(c))
            /\ UNCHANGED <<sess, tasks>>
       ELSE /\ sess' = Touch(sessions[c])
            /\ tasks' = AddTask(tasks, Task("command", "navigate", c, sessions[c],
                                            sess[sessions[c]].page, 0, "page"))
            /\ out' = [ws |-> c, msg |-> "navigate", kind |-> "goto",
                       s |-> sessions[c], text |-> Target(u)]
  /\ UNCHANGED <<browserVars, sessions, pages, wsState, isAlive, histVars, now>>
  /\ UNCHANGED <<httpVars, legacy>>

\* lines 179-206 and 235: a control message whose action is none of the cases
\* of the switch
MsgUnknown(c) ==
  /\ CanReceive(c)
  /\ nMsgs' = nMsgs + 1
  /\ IF sessions[c] = 0
       THEN /\ out' = Recv(c, "unknown", NoSessionReply(c))
            /\ UNCHANGED sess
       ELSE /\ sess' = Touch(sessions[c])
            /\ out' = Recv(c, "unknown", NoOut)
  /\ UNCHANGED <<browserVars, sessions, pages, wsState, isAlive, tasks, histVars, now>>
  /\ UNCHANGED <<httpVars, legacy>>

\* lines 181-182: a message that is not JSON or not of type "control"
MsgIgnored(c) ==
  /\ CanReceive(c)
  /\ nMsgs' = nMsgs + 1
  /\ out' = Recv(c, "ignored", NoOut)
  /\ UNCHANGED <<browserVars, sessions, sess, pages, wsState, isAlive, tasks,
                 histVars, now>>
  /\ UNCHANGED <<httpVars, legacy>>

\* ---- socket events -------------------------------------------------------
\* the peer goes away: the socket leaves OPEN, its close event follows
ClientDrop(c) ==
  /\ wsState[c] = "OPEN"
  /\ wsState' = WsShut({c})
  /\ out' = NoOut
  /\ UNCHANGED <<browserVars, sessions, sess, pages, isAlive, tasks, histVars, now, nMsgs>>
  /\ UNCHANGED <<httpVars, legacy>>

\* lines 246-249: the error event, on a socket that then closes
WsError(c) ==
  /\ wsState[c] = "OPEN"
  /\ wsState' = WsShut({c})
  /\ cleanupSession(sess, {c}, "event")
  /\ out' = NoOut
  /\ UNCHANGED <<browserVars, isAlive, closeStarted, now, nMsgs>>
  /\ UNCHANGED <<httpVars, legacy>>

\* lines 241-244: the close event
WsClose(c) ==
  /\ wsState[c] = "CLOSING"
  /\ wsState' = [wsState EXCEPT ![c] = "CLOSED"]
  /\ cleanupSession(sess, {c}, "event")
  /\ out' = NoOut
  /\ UNCHANGED <<browserVars, isAlive, closeStarted, now, nMsgs>>
  /\ UNCHANGED <<httpVars, legacy>>

\* line 177: the flags after the pong handler of socket c
Ponged_lost(c) == isAlive
Ponged(c) == [isAlive EXCEPT ![c] = TRUE]

\* line 177: a pong arrives
Pong(c) ==
  /\ wsState[c] = "OPEN"
  /\ isAlive' = Ponged(c)
  /\ out' = NoOut
  /\ UNCHANGED <<browserVars, sessions, sess, pages, wsState, tasks, histVars, now, nMsgs>>
  /\ UNCHANGED <<httpVars, legacy>>

\* ---- timers --------------------------------------------------------------
\* wss.clients: the sockets whose close event has not come yet
Clients == {c \in Conns : wsState[c] # "CLOSED"}

\* line 255: a client that has not answered the previous probe
Dead_never(c) == FALSE
Dead(c) == ~isAlive[c]

\* lines 253-263: one heartbeat tick over all clients
Heartbeat ==
  /\ LET dead == {c \in Clients : Dead(c)}
     IN /\ Room(dead)
        /\ wsState' = WsShut(dead)
        /\ cleanupSession(sess, dead, "heartbeat")
        /\ isAlive' = [c \in Conns |-> IF c \in Clients \ dead THEN FALSE ELSE isAlive[c]]
  /\ out' = NoOut
  /\ UNCHANGED <<browserVars, closeStarted, now, nMsgs>>
  /\ UNCHANGED <<httpVars, legacy>>

\* line 269
Idle_atLimit(s) == now - sess[s].lastActivity >= IDLE_LIMIT
Idle(s) == now - sess[s].lastActivity > IDLE_LIMIT

\* lines 266-274: one idle sweep over the registry
IdleSweep ==
  /\ LET idle == {c \in Conns : sessions[c] # 0 /\ Idle(sessions[c])}
     IN /\ Room(idle)
        /\ wsState' = WsShut(idle)
        /\ cleanupSession(sess, idle, "idle")
  /\ out' = NoOut
  /\ UNCHANGED <<browserVars, isAlive, closeStarted, now, nMsgs>>
  /\ UNCHANGED <<httpVars, legacy>>

\* time passes
Tick(d) ==
  /\ now + d <= MaxTime
  /\ now' = now + d
  /\ out' = NoOut
  /\ UNCHANGED <<browserVars, sessions, sess, pages, wsState, isAlive, tasks, histVars, nMsgs>>
  /\ UNCHANGED <<httpVars, legacy>>

\* ---- server.js, lines 238-516: the HTTP server with a browser per session -
\* A session object is [browserClosed, lastActivity, timeout]: whether its
\* own browser has been closed, and the handle of its timer (0 = null).  A
\* timer is [id, due, state], state being pending, cleared or fired.

\* a request is received
CanRequest == nMsgs < MaxMsgs

\* the reply of a handler to request r about session id
Reply(r, kind, id) == [ws |-> 0, msg |-> r, kind |-> kind, s |-> id, text |-> ""]

\* line 497 (and 338, 370, 402, 430, 483): sessions.get(sessionId)
HttpKnown(id) == id \in httpSessions

\* clearTimeout(k): a pending timer is cancelled, any other handle is ignored
ClearTimeout(tm, k) ==
  IF k # 0 /\ tm[k].state = "pending" THEN [tm EXCEPT ![k].state = "cleared"] ELSE tm

\* lines 481-493: resetSessionTimeout(id) on the session objects ss: the
\* timers and the session objects afterwards
RstTimers(id) ==
  IF HttpKnown(id)
    THEN Append(ClearTimeout(httpTimers, httpSess[id].timeout),
                [id |-> id, due |-> now + SESSION_TIMEOUT, state |-> "pending"])
    ELSE httpTimers

RstSess(ss, id) ==
  IF HttpKnown(id) THEN [ss EXCEPT ![id].timeout = Len(httpTimers) + 1] ELSE ss

\* lines 297-331: POST /session/create.  Up to sessions.set the handler awaits
\* the launch, newPage and setUserAgent of its own new browser and touches
\* nothing shared, so its effect is one step, taken when those calls settle.
HttpCreate(ok) ==
  /\ CanRequest
  /\ nMsgs' = nMsgs + 1
  /\ IF ok
       THEN /\ httpSess' = Append(httpSess, [browserClosed |-> FALSE, lastActivity |-> now,
                                            timeout |-> Len(httpTimers) + 1])
            /\ httpSessions' = httpSessions \cup {Len(httpSess) + 1}
            /\ httpTimers' = Append(httpTimers, [id |-> Len(httpSess) + 1,
                                                 due |-> now + SESSION_TIMEOUT,
                                                 state |-> "pending"])
            /\ out' = Reply("create", "success", Len(httpSess) + 1)
       ELSE /\ out' = Reply("create", "error", 0)
            /\ UNCHANGED <<httpVars, legacy>>
  /\ UNCHANGED <<legacy, wsVars, tasks, now>>

\* lines 334-422: navigate, click or type for session id, up to the await of
\* the page call
HttpCommand(id) ==
  /\ CanRequest
  /\ nMsgs' = nMsgs + 1
  /\ IF HttpKnown(id)
       THEN /\ tasks' = AddTask(tasks, Task("httpCommand", "page", 0, id, 0, 0, "request"))
            /\ out' = Reply("command", "none", id)
       ELSE /\ out' = Reply("command", "Session not found", id)
            /\ UNCHANGED tasks
  /\ UNCHANGED <<legacy, wsVars, httpVars, now>>

\* lines 343-362 and the like: the page call settles.  On success lastActivity
\* is written and the timer is set again; a rejection is answered with 500.
HttpCommandDone(t, ok) ==
  /\ t \in Running /\ t.fn = "httpCommand"
  /\ tasks' = DelTask(tasks, t)
  /\ IF ok
       THEN /\ ~httpSess[t.s].browserClosed
            /\ httpSess' = RstSess([httpSess EXCEPT ![t.s].lastActivity = now], t.s)
            /\ httpTimers' = RstTimers(t.s)
            /\ out' = Reply("command", "success", t.s)
       ELSE /\ out' = Reply("command", "error", t.s)
            /\ UNCHANGED <<httpSess, httpTimers>>
  /\ UNCHANGED <<legacy, wsVars, httpSessions, now, nMsgs>>

\* the values of the quality parameter the modelled clients send: the three
\* tiers, an unknown word, none ("", which line 427 replaces by medium as it
\* does an absent one) and two names every object inherits
Tiers == {"low", "medium", "high", "bogus", "", "constructor", "toString"}

\* lines 436-440
qualitySettings ==
  [low    |-> [type |-> "jpeg", quality |-> 40],
   medium |-> [type |-> "jpeg", quality |-> 70],
   high   |-> [type |-> "jpeg", quality |-> 90]]

\* members that qualitySettings, an object literal, inherits from
\* Object.prototype
ObjectPrototype == {"constructor", "toString"}

\* page.screenshot without type and quality: a png, for which no quality
\* applies (written 0)
DefaultCapture == [type |-> "png", quality |-> 0]

\* lines 427 and 442-447: the type and quality page.screenshot is called
\* with.  qualitySettings[quality] is the setting of a tier; for an inherited
\* name it is a function, which is truthy and spreads to no option at all;
\* for any other name it is undefined and medium is taken.
Capture(q) ==
  LET quality == IF q = "" THEN "medium" ELSE q
  IN  IF quality \in DOMAIN qualitySettings THEN qualitySettings[quality]
      ELSE IF quality \in ObjectPrototype THEN DefaultCapture
      ELSE qualitySettings.medium

\* lines 98-99 (the first server of server.js): the quality of the webp
CaptureWebp(q) ==
  LET quality == IF q = "" THEN "medium" ELSE q
  IN  IF quality = "low" THEN 40 ELSE IF quality = "high" THEN 90 ELSE 60

\* lines 425-447: GET /session/screenshot for session id with quality q, up
\* to the await of page.screenshot; the call and its options are the last
\* thing observed
HttpScreenshot(id, q) ==
  /\ CanRequest
  /\ nMsgs' = nMsgs + 1
  /\ IF HttpKnown(id)
       THEN /\ tasks' = AddTask(tasks, Task("httpCommand", "page", 0, id, 0, 0, "request"))
            /\ out' = [ws |-> 0, msg |-> "screenshot", kind |-> Capture(q).type,
                       s |-> id, text |-> ToString(Capture(q).quality)]
       ELSE /\ out' = Reply("screenshot", "Session not found", id)
            /\ UNCHANGED tasks
  /\ UNCHANGED <<legacy, wsVars, httpVars, now>>

\* lines 495-504: closeSession(id) up to the await of browser.close()
closeSession(tm, id, origin) ==
  IF HttpKnown(id)
    THEN /\ httpTimers' = ClearTimeout(tm, httpSess[id].timeout)
         /\ tasks' = AddTask(tasks, Task("closeSession", "browser.close", 0, id, 0, 0, origin))
    ELSE /\ httpTimers' = tm
         /\ UNCHANGED tasks

\* lines 469-474: POST /session/close with any id; the reply waits for
\* closeSession
HttpClose(id) ==
  /\ CanRequest
  /\ nMsgs' = nMsgs + 1
  /\ closeSession(httpTimers, id, "request")
  /\ out' = IF HttpKnown(id) THEN Reply("close", "none", id) ELSE Reply("close", "success", id)
  /\ UNCHANGED <<legacy, wsVars, httpSessions, httpSess, now>>

\* line 509
Deleted_kept(reg, id) == reg
Deleted(reg, id) == reg \ {id}

\* lines 504-511 and 473: browser.close() settles (a rejection is logged), the
\* entry is deleted and the request, if any, is answered
HttpCloseDone(t, ok) ==
  /\ t \in Running /\ t.fn = "closeSession"
  /\ tasks' = DelTask(tasks, t)
  /\ httpSess' = IF ok THEN [httpSess EXCEPT ![t.s].browserClosed = TRUE] ELSE httpSess
  /\ httpSessions' = Deleted(httpSessions, t.s)
  /\ out' = IF t.arg = "request" THEN Reply("close", "success", t.s) ELSE NoOut
  /\ UNCHANGED <<legacy, wsVars, httpTimers, now, nMsgs>>

\* lines 489-492: timer k fires when it is due and calls closeSession
HttpTimeout(k) ==
  /\ k \in DOMAIN httpTimers
  /\ httpTimers[k].state = "pending" /\ httpTimers[k].due <= now
  /\ closeSession([httpTimers EXCEPT ![k].state = "fired"], httpTimers[k].id, "timer")
  /\ out' = NoOut
  /\ UNCHANGED <<legacy, wsVars, httpSessions, httpSess, now, nMsgs>>

\* time passes, up to the moment the next timer is due
HttpTick(d) ==
  /\ now + d <= MaxTime
  /\ \A k \in DOMAIN httpTimers : httpTimers[k].state = "pending" => now + d <= httpTimers[k].due
  /\ now' = now + d
  /\ out' = NoOut
  /\ UNCHANGED <<legacy, wsVars, httpVars, tasks, nMsgs>>

\* the ids a client may name: those of the sessions built, and one more
HttpIds == 1..(Len(httpSess) + 1)

\* the amounts by which the clock of the HTTP server advances
HttpTickSteps == {5, 10}

HttpStep ==
  \/ \E ok \in BOOLEAN : HttpCreate(ok)
  \/ \E id \in HttpIds : HttpCommand(id)
  \/ \E id \in HttpIds, q \in Tiers : HttpScreenshot(id, q)
  \/ \E t \in Running, ok \in BOOLEAN : HttpCommandDone(t, ok)
  \/ \E id \in HttpIds : HttpClose(id)
  \/ \E t \in Running, ok \in BOOLEAN : HttpCloseDone(t, ok)
  \/ \E k \in DOMAIN httpTimers : HttpTimeout(k)
  \/ \E d \in HttpTickSteps : HttpTick(d)

\* ---- the servers with an unguarded browser variable -----------------------
\* server.js lines 19-69, part_005 lines 34-125, part_007 lines 23-232 and
\* part_008 lines 25-199.  A task of these servers carries its server in arg.

\* server.js line 24, part_007 line 26, part_008 line 26: if (browser); the
\* isConnected() test of part_005 line 38 is true of a browser that stays
\* connected, as the browsers of these servers do here
LgReady(srv) == legacy[srv].browser # 0

\* what the launcher does up to its first await
LgLauncher(srv) ==
  IF LgReady(srv)
    THEN Task("createLegacy", "newPage", 0, 0, 0, legacy[srv].browser, srv)
    ELSE Task("createLegacy", "executablePath", 0, 0, 0, 0, srv)

\* the session registered for the client of srv: sessions.get(ws)
LgSession(srv) == IF legacy[srv].entry = {} THEN 0 ELSE CHOOSE s \in legacy[srv].entry : TRUE

\* server.js lines 54-56, part_005 lines 118-119 and 93-94, part_007 lines
\* 139-140 and 102-103, part_008 lines 123-124 and 98-99: a create request
\* or message; the launcher runs up to its first await
LgCreate(srv) ==
  /\ CanRequest
  /\ legacy[srv].open
  /\ nMsgs' = nMsgs + 1
  /\ tasks' = AddTask(tasks, LgLauncher(srv))
  /\ out' = NoOut
  /\ UNCHANGED <<wsVars, httpVars, legacy, now>>

\* server.js line 38, part_005 line 43, part_007 line 30, part_008 line 30:
\* the executable path is there and puppeteer.launch is called; a rejection
\* leaves the create handler
LgExecPathDone(t, ok) ==
  /\ t \in Running /\ t.fn = "createLegacy" /\ t.pc = "executablePath"
  /\ IF ok
       THEN /\ legacy' = [legacy EXCEPT ![t.arg].launches = @ + 1]
            /\ tasks' = AddTask(DelTask(tasks, t),
                                [t EXCEPT !.pc = "launch", !.b = legacy[t.arg].launches + 1])
            /\ out' = NoOut
       ELSE /\ tasks' = DelTask(tasks, t)
            /\ out' = Reply("create", "error", 0)
            /\ UNCHANGED legacy
  /\ UNCHANGED <<wsVars, httpVars, now, nMsgs>>

\* server.js lines 26-43, part_005 lines 42-50, part_007 lines 32-48,
\* part_008 lines 32-47: puppeteer.launch settles and its handle is assigned
\* to the module-level variable
LgLaunchDone(t, ok) ==
  /\ t \in Running /\ t.fn = "createLegacy" /\ t.pc = "launch"
  /\ IF ok
       THEN /\ legacy' = [legacy EXCEPT ![t.arg].browser = t.b]
            /\ tasks' = AddTask(DelTask(tasks, t), [t EXCEPT !.pc = "newPage"])
            /\ out' = NoOut
       ELSE /\ tasks' = DelTask(tasks, t)
            /\ out' = Reply("create", "error", 0)
            /\ UNCHANGED legacy
  /\ UNCHANGED <<wsVars, httpVars, now, nMsgs>>

\* sessions.set: the HTTP server adds an entry under a new id, the others
\* replace the entry of the client's socket
LgRegistered(srv, s) ==
  IF srv = "server.js" THEN legacy[srv].entry \cup {s} ELSE {s}

\* server.js lines 57-68, part_005 lines 95-123, part_007 lines 104-146,
\* part_008 lines 100-128: newPage and the page set-up settle, the session is
\* built and registered and the client is told
LgPageDone(t, ok) ==
  /\ t \in Running /\ t.fn = "createLegacy" /\ t.pc = "newPage"
  /\ tasks' = DelTask(tasks, t)
  /\ IF ok
       THEN /\ legacy' = [legacy EXCEPT
                            ![t.arg].sess = Append(@, [pageClosed |-> FALSE, streaming |-> FALSE]),
                            ![t.arg].entry = LgRegistered(t.arg, Len(legacy[t.arg].sess) + 1)]
            /\ out' = Reply("create", "success", Len(legacy[t.arg].sess) + 1)
       ELSE /\ out' = Reply("create", "error", 0)
            /\ UNCHANGED legacy
  /\ UNCHANGED <<wsVars, httpVars, now, nMsgs>>

\* part_007 lines 177-180 and 79-85, part_008 lines 150-153 and 76-82: a
\* startStream message; without a session it is dropped, and a session that
\* is not streaming enters its loop, the socket being OPEN
LgStartStream(srv) ==
  /\ srv \in Streamers
  /\ CanRequest
  /\ legacy[srv].open
  /\ nMsgs' = nMsgs + 1
  /\ LET s == LgSession(srv)
     IN IF s # 0 /\ ~legacy[srv].sess[s].streaming
          THEN /\ legacy' = [legacy EXCEPT ![srv].sess[s].streaming = TRUE]
               /\ tasks' = AddTask(tasks, Task("streamLoop", "screenshot", 0, s, 0, 0, srv))
          ELSE UNCHANGED <<legacy, tasks>>
  /\ out' = NoOut
  /\ UNCHANGED <<wsVars, httpVars, now>>

\* part_007 lines 84-93, part_008 lines 80-89: page.screenshot settles; the
\* frame is sent, or the rejection is logged, and the loop goes on to its
\* timer either way
LgShotDone(t, ok) ==
  /\ t \in Running /\ t.fn = "streamLoop" /\ t.pc = "screenshot"
  /\ ok => ~legacy[t.arg].sess[t.s].pageClosed
  /\ tasks' = AddTask(DelTask(tasks, t), [t EXCEPT !.pc = "sleep"])
  /\ out' = Reply("", IF ok THEN "frame" ELSE "warn", t.s)
  /\ UNCHANGED <<wsVars, httpVars, legacy, now, nMsgs>>

\* part_007 lines 83 and 95-98, part_008 lines 80 and 91-94: the timer fires
\* and the loop tests ws.readyState, nothing else
LgSleepDone(t) ==
  /\ t \in Running /\ t.fn = "streamLoop" /\ t.pc = "sleep"
  /\ IF legacy[t.arg].open
       THEN /\ tasks' = AddTask(DelTask(tasks, t), [t EXCEPT !.pc = "screenshot"])
            /\ UNCHANGED legacy
       ELSE /\ tasks' = DelTask(tasks, t)
            /\ legacy' = [legacy EXCEPT ![t.arg].sess[t.s].streaming = FALSE]
  /\ out' = NoOut
  /\ UNCHANGED <<wsVars, httpVars, now, nMsgs>>

\* part_007 lines 216-217, part_008 lines 188-189: a close message; without
\* a session it is dropped, otherwise page.close is awaited.  The socket is
\* left as it is.
LgClose(srv) ==
  /\ srv \in Streamers
  /\ CanRequest
  /\ legacy[srv].open
  /\ nMsgs' = nMsgs + 1
  /\ tasks' = IF LgSession(srv) # 0
                THEN AddTask(tasks, Task("closeLegacy", "page.close", 0, LgSession(srv), 0, 0, srv))
                ELSE tasks
  /\ out' = NoOut
  /\ UNCHANGED <<wsVars, httpVars, legacy, now>>

\* part_007 lines 217-219 and 226-227, part_008 lines 189-190 and 196:
\* page.close settles (a rejection is swallowed); the handler that awaited
\* it deletes the entry of the socket
LgCloseDone(t, ok) ==
  /\ t \in Running /\ t.fn = "closeLegacy"
  /\ tasks' = DelTask(tasks, t)
  /\ legacy' = [legacy EXCEPT
                  ![t.arg].sess[t.s].pageClosed = @ \/ ok,
                  ![t.arg].entry = IF t.pc = "page.close" THEN {} ELSE @]
  /\ out' = NoOut
  /\ UNCHANGED <<wsVars, httpVars, now, nMsgs>>

\* part_007 lines 223-229, part_008 lines 194-198: the socket closes.  The
\* close handler of part_007 awaits page.close and then deletes the entry;
\* that of part_008 calls page.close without awaiting it and deletes at once.
LgDrop(srv) ==
  /\ srv \in Streamers
  /\ legacy[srv].open
  /\ LET s == LgSession(srv)
     IN IF srv = "part_007"
          THEN /\ legacy' = [legacy EXCEPT ![srv].open = FALSE]
               /\ tasks' = IF s # 0
                             THEN AddTask(tasks, Task("closeLegacy", "page.close", 0, s, 0, 0, srv))
                             ELSE tasks
          ELSE /\ legacy' = [legacy EXCEPT ![srv].open = FALSE, ![srv].entry = {}]
               /\ tasks' = IF s # 0
                             THEN AddTask(tasks, Task("closeLegacy", "page.close unawaited", 0, s, 0, 0, srv))
                             ELSE tasks
  /\ out' = NoOut
  /\ UNCHANGED <<wsVars, httpVars, now, nMsgs>>

LegacyStep ==
  \/ \E srv \in Servers : LgCreate(srv)
  \/ \E t \in Running, ok \in BOOLEAN : LgExecPathDone(t, ok)
  \/ \E t \in Running, ok \in BOOLEAN : LgLaunchDone(t, ok)
  \/ \E t \in Running, ok \in BOOLEAN : LgPageDone(t, ok)
  \/ \E srv \in Servers : LgStartStream(srv)
  \/ \E t \in Running, ok \in BOOLEAN : LgShotDone(t, ok)
  \/ \E t \in Running : LgSleepDone(t)
  \/ \E srv \in Servers : LgClose(srv)
  \/ \E t \in Running, ok \in BOOLEAN : LgCloseDone(t, ok)
  \/ \E srv \in Servers : LgDrop(srv)

\* ---- the system ----------------------------------------------------------
\* The server with the clients of Open connected, after the create of client 1
\* has succeeded: the state that MsgCreate, ExecPathDone, LaunchDone,
\* NewPageDone and PageConfigured lead to from Started(Open).  Bound is the
\* one with client 1 alone.
Admitted(Open) ==
  /\ browser = 1
  /\ browserConnected = TRUE
  /\ browserInitializing = FALSE
  /\ sessions = [c \in Conns |-> IF c = 1 THEN 1 ELSE 0]
  /\ sess = << [ws |-> 1, page |-> 1, streaming |-> FALSE, lastActivity |-> 0] >>
  /\ pages = << [closed |-> FALSE, owner |-> 1, closeCalls |-> 0] >>
  /\ wsState = [c \in Conns |-> IF c \in Open THEN "OPEN" ELSE "CLOSED"]
  /\ isAlive = [c \in Conns |-> TRUE]
  /\ tasks = EmptyBag
  /\ now = 0
  /\ out = Send(1, "info", 1)
  /\ nLaunch = 1
  /\ returned = {1}
  /\ closeStarted = {}
  /\ torn = {}
  /\ nMsgs = 0
  /\ HttpStarted
  /\ LegacyStarted

Bound == Admitted({1})

\* the steps of createSession and of ensureBrowser
CreateStep ==
  \/ \E t \in Running : PollInit(t)
  \/ \E t \in Running, ok \in BOOLEAN : ExecPathDone(t, ok)
  \/ \E t \in Running, ok \in BOOLEAN : LaunchDone(t, ok)
  \/ \E t \in Running, ok \in BOOLEAN : NewPageDone(t, ok)
  \/ \E t \in Running, ok \in BOOLEAN : PageConfigured(t, ok)

\* the messages of a client
MsgStep ==
  \/ \E c \in Conns : MsgCreate(c)
  \/ \E c \in Conns : MsgStartStream(c)
  \/ \E c \in Conns : MsgClose(c)
  \/ \E c \in Conns, a \in SentActions, p \in Payloads : MsgCommand(c, a, p)
  \/ \E c \in Conns : MsgUnknown(c)
  \/ \E c \in Conns : MsgIgnored(c)

\* the steps of the streaming loop, of a command and of cleanupSession
SessionStep ==
  \/ \E t \in Running, ok \in BOOLEAN : ScreenshotDone(t, ok)
  \/ \E t \in Running : SleepDone(t)
  \/ \E t \in Running, ok \in BOOLEAN : PageCloseDone(t, ok)
  \/ \E t \in Running, ok \in BOOLEAN : CommandDone(t, ok)

\* socket events and timers
EnvStep ==
  \/ \E c \in Conns : ClientDrop(c)
  \/ \E c \in Conns : WsError(c)
  \/ \E c \in Conns : WsClose(c)
  \/ \E c \in Conns : Pong(c)
  \/ Heartbeat
  \/ IdleSweep
  \/ \E d \in TickSteps : Tick(d)

\* The whole server, from start-up with one client connected.
Init == Started({1})
Next == MsgStep \/ CreateStep \/ BrowserDisconnect \/ SessionStep \/ EnvStep
Spec == Init /\ [][Next]_vars

\* The same with the scheduling the event loop gives: a pending puppeteer call
\* settles, a timer that was set fires, a socket that left OPEN emits close.
\* Nothing obliges a client to send a message or to go away.
FairSpec ==
  /\ Spec
  /\ WF_vars(\E t \in Running, ok \in BOOLEAN : ScreenshotDone(t, ok))
  /\ WF_vars(\E t \in Running : SleepDone(t))
  /\ WF_vars(\E t \in Running, ok \in BOOLEAN : PageCloseDone(t, ok))
  /\ WF_vars(\E t \in Running, ok \in BOOLEAN : CommandDone(t, ok))
  /\ WF_vars(CreateStep)
  /\ WF_vars(\E c \in Conns : WsClose(c))

\* The shared browser and the admission of sessions: all clients connected,
\* each sending create.
InitPool == Started(Conns)
NextPool == (\E c \in Conns : MsgCreate(c)) \/ CreateStep \/ BrowserDisconnect
SpecPool == InitPool /\ [][NextPool]_vars

\* The life of one admitted session, from Bound.
NextSession == MsgStep \/ SessionStep \/ EnvStep
SpecSession == Bound /\ [][NextSession]_vars

\* The life of one admitted session under the scheduling of FairSpec.
FairSession ==
  /\ SpecSession
  /\ WF_vars(\E t \in Running, ok \in BOOLEAN : ScreenshotDone(t, ok))
  /\ WF_vars(\E t \in Running : SleepDone(t))
  /\ WF_vars(\E t \in Running, ok \in BOOLEAN : PageCloseDone(t, ok))
  /\ WF_vars(\E t \in Running, ok \in BOOLEAN : CommandDone(t, ok))
  /\ WF_vars(\E c \in Conns : WsClose(c))

\* The life of one admitted session where nothing is assumed but that a
\* pending page.close settles.
FairTeardown ==
  /\ SpecSession
  /\ WF_vars(\E t \in Running, ok \in BOOLEAN : PageCloseDone(t, ok))

\* The dispatcher serving two clients, the first with its session and the
\* second without one: the messages and the calls they start.
NextDispatch == MsgStep \/ SessionStep
SpecDispatch == Admitted({1, 2}) /\ [][NextDispatch]_vars

\* ensureBrowser and its callers: every client connected and sending create,
\* each executablePath and launch call settling, each poll timer firing.
NextBrowser ==
  \/ \E c \in Conns : MsgCreate(c)
  \/ \E t \in Running : PollInit(t)
  \/ \E t \in Running, ok \in BOOLEAN : ExecPathDone(t, ok)
  \/ \E t \in Running, ok \in BOOLEAN : LaunchDone(t, ok)
  \/ BrowserDisconnect

FairBrowser ==
  /\ InitPool /\ [][NextBrowser]_vars
  /\ WF_vars(\E t \in Running : PollInit(t))
  /\ WF_vars(\E t \in Running, ok \in BOOLEAN : ExecPathDone(t, ok))
  /\ WF_vars(\E t \in Running, ok \in BOOLEAN : LaunchDone(t, ok))

\* Sessions side by side: every client connected, the create path, and the
\* commands and streaming loops of the sessions created.
NextPages ==
  \/ \E c \in Conns : MsgCreate(c)
  \/ CreateStep
  \/ \E c \in Conns : MsgStartStream(c)
  \/ \E c \in Conns, a \in SentActions, p \in Payloads : MsgCommand(c, a, p)
  \/ \E t \in Running, ok \in BOOLEAN : CommandDone(t, ok)
  \/ \E t \in Running, ok \in BOOLEAN : ScreenshotDone(t, ok)
  \/ \E t \in Running : SleepDone(t)

SpecPages == InitPool /\ [][NextPages]_vars

\* Navigation: one admitted session whose client sends navigate messages.
NextNavigate ==
  \/ \E c \in Conns, u \in Urls : MsgNavigate(c, u)
  \/ \E t \in Running, ok \in BOOLEAN : CommandDone(t, ok)

SpecNavigate == Bound /\ [][NextNavigate]_vars

\* The servers with an unguarded browser variable, each with its client;
\* a pending screenshot settles and a pending timer of the loop fires.
FairLegacy ==
  /\ Started({}) /\ [][LegacyStep]_vars
  /\ WF_vars(\E t \in Running, ok \in BOOLEAN : LgShotDone(t, ok))
  /\ WF_vars(\E t \in Running : LgSleepDone(t))

\* The HTTP server of server.js alone; the WebSocket server has no client.
SpecHttp == Started({}) /\ [][HttpStep]_vars

\* The teardown of both servers: the WebSocket server with one admitted
\* session, whose client closes or goes away, next to the HTTP server.
TeardownStep ==
  \/ \E c \in Conns : MsgClose(c)
  \/ \E c \in Conns : ClientDrop(c)
  \/ \E c \in Conns : WsError(c)
  \/ \E c \in Conns : WsClose(c)
  \/ \E t \in Running, ok \in BOOLEAN : PageCloseDone(t, ok)

\* the HTTP server without the page commands
HttpTeardownStep ==
  \/ \E ok \in BOOLEAN : HttpCreate(ok)
  \/ \E id \in HttpIds : HttpClose(id)
  \/ \E t \in Running, ok \in BOOLEAN : HttpCloseDone(t, ok)
  \/ \E k \in DOMAIN httpTimers : HttpTimeout(k)
  \/ \E d \in HttpTickSteps : HttpTick(d)

SpecTeardown == Bound /\ [][TeardownStep \/ HttpTeardownStep]_vars

\* ---- properties ----------------------------------------------------------
\* the calls of puppeteer.launch that have not settled
Launching == Copies({t \in Running : t.fn = "create" /\ t.pc = "launch"})

\* the callers inside ensureBrowser's initialization (lines 44-75)
Initializing == Copies({t \in Running : t.fn = "create" /\ t.pc \in {"executablePath", "launch"}})

\* C1: with cap MAX_SESSIONS the registry never holds more than MAX_SESSIONS
\* sessions, whatever the interleaving of create requests.
C1_RegistryWithinCap == RegistrySize <= MAX_SESSIONS

\* C2: when the first launch succeeds (the shared handle is the first launch's
\* and is connected), exactly one puppeteer.launch has been made and every
\* caller of ensureBrowser has been given that one handle, however many callers
\* arrived while it was in flight.
C2_SingleFlight ==
  (browser = 1 /\ browserConnected) => (nLaunch = 1 /\ returned = {1})

\* Two callers hold the handle of the one launch: the one that launched and
\* one that arrived meanwhile and waited.
C2_Witness ==
  /\ browser = 1 /\ browserConnected /\ nLaunch = 1
  /\ \E t, u \in Running :
       /\ t.pc = "newPage" /\ t.arg = "direct" /\ t.b = 1
       /\ u.pc = "newPage" /\ u.arg = "waited" /\ u.b = 1

\* C3: at most one puppeteer.launch started by ensureBrowser is in flight, and
\* at most one caller is between setting browserInitializing and the end of
\* its launch; the flag is set exactly while there is one.
C3_OneLaunchInFlight ==
  /\ Launching <= 1
  /\ Initializing <= 1
  /\ browserInitializing <=> (Initializing = 1)

\* The first launch has failed; of the callers that were polling the flag one
\* has retried and is launching, another is polling again.
C3_Witness ==
  /\ \E t \in Running : t.pc = "launch" /\ t.arg = "waited" /\ t.b = 2
  /\ \E u \in Running : u.pc = "waitInit"
  /\ browser = 0

\* the streaming loops running for session s
LoopsOf(s) == {t \in Running : t.fn = "startStream" /\ t.s = s}
Loops(s) == Copies(LoopsOf(s))

\* the page calls of commands that have not settled on connection c
Commands(c) == Copies({t \in Running : t.fn = "command" /\ t.ws = c})

\* C4: the commands of one session execute one at a time: while the handler
\* awaits the page call of one command, no second command of the same
\* connection is executing against the page.
C4_OneCommandAtATime == \A c \in Conns : Commands(c) <= 1

\* C5: once the close action has started cleanupSession for a session, no
\* frame of that session is sent.
C5_NoFrameAfterClose == out.kind = "frame" => out.s \notin closeStarted

\* a session that is in the registry and that no cleanupSession has touched
Live(s) ==
  /\ \E c \in Conns : sessions[c] = s
  /\ s \notin torn
  /\ \A t \in Running : t.fn = "cleanupSession" => t.s # s

\* the session objects the model can build
SessIds == 1..(MaxMsgs + 1)

\* the page.screenshot calls of session s that have not settled
Shots(s) == Copies({t \in LoopsOf(s) : t.pc = "screenshot"})

\* C6 (step part): once cleanupSession has run to its end for a session (or has
\* deleted its registry entry), its loop starts no further capture: what
\* remains is the iteration in progress.
C6_NoNewIteration == \A s \in torn : Shots(s)' <= Shots(s)

\* C6 (torn down): once cleanupSession has torn a session down, its streaming
\* loop ends after at most the iteration in progress.
C6_LoopStopsAfterTeardown ==
  /\ [][C6_NoNewIteration]_vars
  /\ \A s \in SessIds : (s \in torn) ~> (Loops(s) = 0)

\* session s exists and the registry has no entry for it
Unregistered(s) == s \in DOMAIN sess /\ \A c \in Conns : sessions[c] # s

\* C6: once a session is torn down its streaming loop ends, after at most
\* one more iteration, and no loop stays active for ever for a session that is
\* no longer in the registry.
C6_NoLoopOutlivesSession ==
  /\ C6_LoopStopsAfterTeardown
  /\ \A s \in SessIds : Unregistered(s) ~> (Loops(s) = 0)

\* C7 (state part): a live session has at most one streaming loop, and
\* exactly one while its streaming flag is set.
C7_OneLoop ==
  \A s \in DOMAIN sess :
    Live(s) => (Loops(s) <= 1 /\ (sess[s].streaming => Loops(s) = 1))

\* C7 (step part): a startStream message for a session whose streaming flag
\* is set starts no loop and leaves the session as the dispatcher's write of
\* lastActivity (line 202) left it.
C7_SecondStartIsNoOp ==
  \A c \in Conns :
    (MsgStartStream(c) /\ sessions[c] # 0 /\ sess[sessions[c]].streaming)
      => /\ tasks' = tasks
         /\ sess' = Touch(sessions[c])
         /\ UNCHANGED <<sessions, pages, wsState>>

\* C7: two startStream commands on one live session start exactly one loop;
\* the second one changes nothing.
C7_StartStreamOnce == [] C7_OneLoop /\ [][C7_SecondStartIsNoOp]_vars

\* A startStream message has just been handled for a session whose loop was
\* already running (it is in its sleep, where no new loop can be).
C7_Witness ==
  /\ out.msg = "startStream" /\ out.kind = "none"
  /\ sessions[out.ws] # 0
  /\ sess[sessions[out.ws]].streaming
  /\ \E t \in LoopsOf(sessions[out.ws]) : t.pc = "sleep"
  /\ Loops(sessions[out.ws]) = 1

\* C8: streaming = true implies exactly one active loop, and no session ever
\* has more than one loop.
C8_StreamingIffOneLoop ==
  \A s \in DOMAIN sess : Loops(s) <= 1 /\ (sess[s].streaming => Loops(s) = 1)

\* C9: page.close is invoked at most once per page.
C9_PageClosedOnce == \A p \in DOMAIN pages : pages[p].closeCalls <= 1

\* the create and cleanupSession calls in flight for connection c
Pending(c) == {t \in Running : t.ws = c /\ t.fn \in {"create", "cleanupSession"}}

\* C10: when the close event of a connection has been handled and no create
\* or cleanup of that connection is still in flight, the registry has no
\* session for it and every page created for it is closed.
C10_ClosedConnectionTornDown ==
  \A c \in Conns :
    (wsState[c] = "CLOSED" /\ Pending(c) = {})
      => /\ sessions[c] = 0
         /\ \A p \in DOMAIN pages : pages[p].owner = c => pages[p].closed

\* connection c has its session in the registry and a cleanupSession of origin
\* o is awaiting page.close for it
Evicting(c, o) ==
  \E t \in Running :
    t.fn = "cleanupSession" /\ t.arg = o /\ t.ws = c /\ t.s = sessions[c]

\* C11 (step part): an idle sweep terminates the connection of every session
\* whose now - lastActivity exceeds the threshold and starts its removal (the
\* entry is deleted at once, or cleanupSession is awaiting page.close for it);
\* a session at or under the threshold is left as it was.
C11_SweepStep ==
  IdleSweep =>
    \A c \in Conns :
      sessions[c] # 0 =>
        IF now - sess[sessions[c]].lastActivity > IDLE_LIMIT
          THEN /\ wsState'[c] # "OPEN"
               /\ \/ sessions'[c] = 0
                  \/ CleanupTask(c, "idle") \in BagToSet(tasks')
          ELSE /\ sessions'[c] = sessions[c]
               /\ wsState'[c] = wsState[c]
               /\ sess'[sessions[c]] = sess[sessions[c]]
               /\ CopiesIn(CleanupTask(c, "idle"), tasks')
                    = CopiesIn(CleanupTask(c, "idle"), tasks)

\* C11: on every idle sweep a session is evicted if and only if
\* now - lastActivity exceeds the idle threshold: a session over it has its
\* connection terminated and leaves the registry as a result of the sweep, a
\* session at or under it is not touched.
C11_IdleSweepEvictsIff ==
  /\ [][C11_SweepStep]_vars
  /\ \A c \in Conns : Evicting(c, "idle") ~> ~Evicting(c, "idle")

\* The sweep has found a session over the threshold: its socket is terminated
\* and cleanupSession is closing its page.
C11_Witness ==
  \E t \in Running :
    /\ t.fn = "cleanupSession" /\ t.arg = "idle"
    /\ now - sess[t.s].lastActivity > IDLE_LIMIT
    /\ wsState[t.ws] = "CLOSING"
    /\ sessions[t.ws] = t.s

\* a step of cleanupSession that removes the registry entry of connection c:
\* the delete after page.close (line 169), or the delete made at once, in the
\* handler that called cleanupSession, when the page is already closed
CleanupRemoves(c) ==
  \/ \E t \in Running, ok \in BOOLEAN : t.ws = c /\ PageCloseDone(t, ok)
  \/ /\ ~NeedsClose(c)
     /\ sessions'[c] = 0
     /\ MsgClose(c) \/ WsError(c) \/ WsClose(c) \/ Heartbeat \/ IdleSweep

\* C12 (registry part): a session leaves the registry only in a step of
\* cleanupSession.
C12_LeavesByCleanupOnly ==
  \A c \in Conns :
    (sessions[c] # 0 /\ sessions'[c] # sessions[c]) => CleanupRemoves(c)

\* C12 (command part): a page command that fails or times out leaves the
\* registry, the session, its page and its connection as they were.
C12_FailedCommandIsLocal ==
  \A t \in Running :
    CommandDone(t, FALSE) => UNCHANGED <<sessions, sess, pages, wsState>>

\* C12: a session leaves the registry only through cleanupSession (close
\* action, connection close or error, heartbeat failure, idle timeout); a
\* failed navigate, click, scroll, type, back or forward removes no session,
\* clears no page and closes no connection.
C12_OnlyCleanupRemoves ==
  [][C12_LeavesByCleanupOnly /\ C12_FailedCommandIsLocal]_vars

\* the page calls of commands that have not settled for session s
CommandsOf(s) == Copies({t \in Running : t.fn = "command" /\ t.s = s})

\* C13: the streaming loop's page.screenshot of a session is never pending
\* while a command of the same session is executing against the same page.
C13_NoCaptureDuringCommand ==
  \A s \in DOMAIN sess : ~(Shots(s) >= 1 /\ CommandsOf(s) >= 1)

\* a control message other than create arrives on connection c
NonCreate(c) ==
  \/ MsgStartStream(c)
  \/ MsgClose(c)
  \/ MsgUnknown(c)
  \/ \E a \in SentActions, p \in Payloads : MsgCommand(c, a, p)

\* C14 (step): a control message other than create on a connection without a
\* session
C14_Step ==
  \A c \in Conns :
    (sessions[c] = 0 /\ NonCreate(c))
      => /\ out'.ws = c /\ out'.kind = "error" /\ out'.text = "No active session"
         /\ UNCHANGED <<sessions, sess, pages, tasks, browserVars>>
         /\ wsState' = wsState
         /\ wsState'[c] = "OPEN"

\* C14: a control message other than create received on a connection that has
\* no session is answered with a "No active session" error record, changes
\* neither the registry nor the browser, touches no page and leaves the
\* connection open.
C14_NoSessionRejected == [][C14_Step]_vars

\* A page command on the connection without a session has just been answered
\* with the error, while the other connection's session is streaming.
C14_Witness ==
  /\ out.msg \in SentActions /\ out.kind = "error" /\ out.text = "No active session"
  /\ sessions[out.ws] = 0 /\ wsState[out.ws] = "OPEN"
  /\ \E c \in Conns : sessions[c] # 0 /\ Loops(sessions[c]) = 1

\* a malformed message arrives on connection c: not JSON or not of type
\* "control", an unknown action, or a known action without its fields
Malformed(c) ==
  \/ MsgIgnored(c)
  \/ MsgUnknown(c)
  \/ \E a \in SentActions : MsgCommand(c, a, "missing")

\* C15 (step): a malformed message is answered with an error record and
\* changes nothing
C15_Step ==
  \A c \in Conns :
    Malformed(c)
      => /\ out'.ws = c /\ out'.kind = "error"
         /\ UNCHANGED <<sessions, sess, pages, tasks, wsState, browserVars>>

\* C15: a malformed message is rejected with a structured error record sent
\* to the client and changes no state of any session or of the connection.
C15_MalformedRejected == [][C15_Step]_vars

\* C16 (step): a page action whose payload lacks its fields starts no call on
\* the session's page
C16_Step ==
  \A c \in Conns, a \in SentActions :
    (sessions[c] # 0 /\ MsgCommand(c, a, "missing")) => tasks' = tasks

\* C16: no page operation is invoked with an invalid payload: a navigate
\* without url, a click without x and y, a scroll or type without its field
\* never reaches the session's page.
C16_InvalidNeverReachesPage == [][C16_Step]_vars

\* C17 (failure): when ensureBrowser throws, the flag is cleared and no
\* connected handle is stored
C17_FailureStep ==
  \A t \in Running :
    (LaunchDone(t, FALSE) \/ ExecPathDone(t, FALSE))
      => /\ ~browserInitializing'
         /\ ~(browser' # 0 /\ browserConnected')

\* C17 (retry): a create that finds the flag cleared and no connected handle
\* starts an initialization of its own
C17_RetryStep ==
  \A c \in Conns :
    (MsgCreate(c) /\ ~AtCapacity /\ ~browserInitializing /\ ~BrowserReady)
      => /\ browserInitializing'
         /\ \E t \in BagToSet(tasks') :
              /\ t.ws = c /\ t.pc = "executablePath"
              /\ CopiesIn(t, tasks') = CopiesIn(t, tasks) + 1

\* C17: a failed browser launch is not cached: after ensureBrowser throws,
\* browserInitializing is false and no usable handle is stored, so the next
\* ensureBrowser call starts a new launch.
C17_FailedLaunchNotCached == [][C17_FailureStep /\ C17_RetryStep]_vars

\* The first launch failed; a create that came afterwards launched again and
\* holds the handle of the second launch, which succeeded.
C17_Witness ==
  /\ browser = 2 /\ browserConnected /\ returned = {2}
  /\ \E t \in Running : t.pc = "newPage" /\ t.arg = "direct" /\ t.b = 2
  /\ \A t \in Running : t.arg = "direct"

\* C18 (step): a create that arrives while the registry holds MAX_SESSIONS
\* sessions
C18_Step ==
  \A c \in Conns :
    (MsgCreate(c) /\ RegistrySize >= MAX_SESSIONS)
      => /\ out'.ws = c /\ out'.kind = "error" /\ out'.text = "Maximum sessions reached"
         /\ UNCHANGED <<browserVars, pages, tasks, sessions, sess>>
         /\ wsState' = wsState
         /\ wsState'[c] = "OPEN"

\* C18: a create rejected because the registry is at capacity starts no
\* browser launch, creates no page, leaves the registry and the existing
\* sessions unchanged, and is reported to the client as an error record while
\* the connection stays open.
C18_RejectedCreateConsumesNothing == [][C18_Step]_vars

\* The create of the second client has just been rejected while the first
\* client's session is in the registry and streaming.
C18_Witness ==
  /\ out.msg = "create" /\ out.kind = "error" /\ out.text = "Maximum sessions reached"
  /\ sessions[out.ws] = 0 /\ wsState[out.ws] = "OPEN"
  /\ \E c \in Conns : sessions[c] # 0 /\ Loops(sessions[c]) = 1

\* C19 (failure): a rejected page.screenshot ends its loop and clears the
\* flag, and changes nothing else of the session, the registry, the pages or
\* the sockets
C19_FailureStep ==
  \A t \in Running :
    ScreenshotDone(t, FALSE)
      => /\ Loops(t.s)' = Loops(t.s) - 1
         /\ sess' = [sess EXCEPT ![t.s].streaming = FALSE]
         /\ UNCHANGED <<sessions, pages, wsState>>

\* C19 (restart): a startStream for a registered session whose flag is clear
\* and whose socket is open starts a loop
C19_RestartStep ==
  \A c \in Conns :
    (MsgStartStream(c) /\ sessions[c] # 0 /\ ~sess[sessions[c]].streaming)
      => /\ Loops(sessions[c])' = Loops(sessions[c]) + 1
         /\ sess'[sessions[c]].streaming

\* C19: a page.screenshot failure inside the streaming loop terminates that
\* loop and sets session.streaming to false, but leaves the session in the
\* registry with its page and connection untouched; a later startStream on
\* that session starts a new loop.
C19_CaptureFailureIsLocal == [][C19_FailureStep /\ C19_RestartStep]_vars

\* A capture has just failed: the session is still registered, its flag is
\* clear, no loop is left, its page and its socket are open.
C19_Witness ==
  /\ out.kind = "warn"
  /\ \E c \in Conns :
       /\ sessions[c] = out.s /\ wsState[c] = "OPEN"
       /\ ~sess[out.s].streaming /\ Loops(out.s) = 0
       /\ ~pages[sess[out.s].page].closed
       /\ Live(out.s)

\* C20 (probe): a heartbeat terminates every client that has not answered the
\* previous probe and starts the removal of its session (the entry is deleted
\* at once, or cleanupSession is awaiting page.close for it); a client that
\* has answered is probed again and otherwise left alone
C20_ProbeStep ==
  Heartbeat =>
    \A c \in Conns :
      wsState[c] # "CLOSED" =>
        IF ~isAlive[c]
          THEN /\ wsState'[c] # "OPEN"
               /\ sessions[c] # 0 =>
                    \/ sessions'[c] = 0
                    \/ CleanupTask(c, "heartbeat") \in BagToSet(tasks')
          ELSE /\ ~isAlive'[c]
               /\ wsState'[c] = wsState[c]
               /\ sessions'[c] = sessions[c]

\* C20 (pong): isAlive is cleared by a probe only and set by a pong only
C20_PongStep ==
  \A c \in Conns :
    /\ (isAlive[c] /\ ~isAlive'[c]) => Heartbeat
    /\ (~isAlive[c] /\ isAlive'[c]) => Pong(c)

C21_Step ==
  /\ \A t \in Running, ok \in BOOLEAN :
       (t.arg = "idle" /\ PageCloseDone(t, ok))
         => /\ ~sess'[t.s].streaming
            /\ pages'[t.page].closed
            /\ \A c \in Conns : sessions'[c] # t.s
            /\ wsState'[t.ws] # "OPEN"
  /\ IdleSweep =>
       \A c \in Conns :
         (sessions[c] # 0 /\ Idle(sessions[c]) /\ ~NeedsClose(c))
           => /\ ~sess'[sessions[c]].streaming
              /\ pages'[sess[sessions[c]].page].closed
              /\ \A d \in Conns : sessions'[d] # sessions[c]
              /\ wsState'[c] # "OPEN"

\* C21: after the idle reaper evicts a session and its cleanup completes,
\* session.streaming is false, its page is closed, its registry entry is
\* absent and its connection is terminated.
C21_ReapedSessionIsGone == [][C21_Step]_vars

\* C22: teardown is idempotent.  cleanupSession for a connection without a
\* registry entry, and closeSession for an id without one, change nothing and
\* raise no error (the close request is answered with success); a teardown
\* that ran to its end leaves no entry, so a second one in sequence is that
\* no-op and the state after two teardowns is the state after one.
C22_Step ==
  /\ \A c \in Conns :
       ((WsClose(c) \/ WsError(c)) /\ sessions[c] = 0)
         => UNCHANGED <<sessions, sess, pages, tasks, torn>>
  /\ \A id \in HttpIds :
       (HttpClose(id) /\ ~HttpKnown(id))
         => UNCHANGED <<httpVars, tasks>> /\ out'.kind = "success"
  /\ \A t \in Running, ok \in BOOLEAN :
       /\ PageCloseDone(t, ok) => sessions'[t.ws] = 0
       /\ HttpCloseDone(t, ok) => ~HttpKnown(t.s)'

C22_TeardownIdempotent == [][C22_Step]_vars

\* C22 witness: the close event came after the error event had torn the
\* session down, and a session of the HTTP server was closed by two requests
C22_Witness ==
  /\ wsState[1] = "CLOSED" /\ 1 \in torn /\ sessions[1] = 0
  /\ closeStarted = {} /\ Running = {}
  /\ Len(httpSess) = 1 /\ httpSessions = {} /\ httpSess[1].browserClosed /\ nMsgs = 3
  /\ out = Reply("close", "success", 1)

\* C23: a frame is sent only while the session is streaming and its
\* connection is open: whenever the loop has just sent a frame, the flag of
\* its session is set and the socket is OPEN.
C23_FrameOnlyWhileStreaming ==
  out.kind = "frame" => (sess[out.s].streaming /\ wsState[out.ws] = "OPEN")

\* C23, the half about the socket: no frame is sent on a socket that is not OPEN
C23_FrameOnlyWhileOpen == out.kind = "frame" => wsState[out.ws] = "OPEN"

\* C24: a page belongs to one session only.  No two sessions, hence no two
\* registry entries, refer to the same page, and the page a command or a
\* streaming loop works on is the page of the session it runs for.
C24_PageOfOneSession ==
  /\ \A s1, s2 \in DOMAIN sess : s1 # s2 => sess[s1].page # sess[s2].page
  /\ \A t \in Running :
       t.fn \in {"command", "startStream"} => t.page = sess[t.s].page

\* C24 witness: two sessions are registered and a loop or a command runs for
\* one of them
C24_Witness ==
  /\ sessions[1] # 0 /\ sessions[2] # 0 /\ sessions[1] # sessions[2]
  /\ \E t \in Running : t.fn \in {"command", "startStream"}

\* a url carries a scheme: it begins with a scheme name followed by "://"
HasScheme(u) ==
  \E k \in 2..Len(u) :
    /\ u[k] = "://"
    /\ \A j \in 1..(k - 1) : u[j] \in {"http", "HTTP", "ftp", "s"}

\* C25: navigate prefixes "https://" to the url exactly when the url lacks a
\* scheme, and passes a url that carries a scheme through unchanged.
C25_Step ==
  \A c \in Conns, u \in Urls :
    (MsgNavigate(c, u) /\ sessions[c] # 0)
      => out'.text = IF HasScheme(u) THEN Str(u) ELSE "https://" \o Str(u)

C25_SchemeAddedIffMissing == [][C25_Step]_vars

\* C25, for the urls without "://" and the urls that begin with http:// or
\* https://: the former get the prefix, the latter pass unchanged
C25_HttpStep ==
  \A c \in Conns, u \in Urls :
    (MsgNavigate(c, u) /\ sessions[c] # 0)
      => /\ (\A k \in DOMAIN u : u[k] # "://") => out'.text = "https://" \o Str(u)
         /\ HttpScheme(u) => out'.text = Str(u)
         /\ u = <<"example.com">> => out'.text = "https://example.com"

C25_HttpSchemeKept == [][C25_HttpStep]_vars

\* C26: frame capture maps the tiers low, medium and high to strictly
\* increasing encoder quality, and any other tier value, an absent one
\* included, is captured at exactly the medium quality.
C26_Step ==
  /\ qualitySettings.low.quality < qualitySettings.medium.quality
  /\ qualitySettings.medium.quality < qualitySettings.high.quality
  /\ CaptureWebp("low") < CaptureWebp("medium") /\ CaptureWebp("medium") < CaptureWebp("high")
  /\ \A q \in Tiers \ {"low", "medium", "high"} : CaptureWebp(q) = CaptureWebp("medium")
  /\ \A id \in HttpIds, q \in Tiers :
       (HttpScreenshot(id, q) /\ HttpKnown(id))
         => /\ q \in {"low", "medium", "high"}
                 => out'.text = ToString(qualitySettings[q].quality)
            /\ q \notin {"low", "medium", "high"}
                 => /\ out'.kind = qualitySettings.medium.type
                    /\ out'.text = ToString(qualitySettings.medium.quality)

C26_TiersAndFallback == [][C26_Step]_vars

\* C26, for the tier values that are not names inherited by every object
C26_OwnStep ==
  \A id \in HttpIds, q \in Tiers \ ObjectPrototype :
    (HttpScreenshot(id, q) /\ HttpKnown(id))
      => out'.text = ToString(IF q \in {"low", "high"} THEN qualitySettings[q].quality
                                                       ELSE qualitySettings.medium.quality)

C26_UnknownWordIsMedium == [][C26_OwnStep]_vars

\* no createSession and no cleanupSession is in flight
Quiescent == \A t \in Running : t.fn \notin {"create", "cleanupSession"}

\* the registry entries that refer to page p
EntriesOf(p) == {c \in Conns : sessions[c] # 0 /\ sess[sessions[c]].page = p}

\* C27: in every quiescent state, every page created by createSession is
\* either referenced by exactly one registry entry or closed.
C27_NoOrphanPage ==
  Quiescent => \A p \in DOMAIN pages : pages[p].closed \/ Cardinality(EntriesOf(p)) = 1

\* C28: the loop sets lastActivity after every successfully captured frame,
\* so a session whose loop keeps capturing is never evicted by the idle
\* reaper: every capture that succeeds leaves lastActivity at the present
\* time, and the sweep evicts no session whose lastActivity, hence whose last
\* capture, is at most the idle limit old.
C28_Step ==
  /\ \A t \in Running :
       ScreenshotDone(t, TRUE) => sess'[t.s].lastActivity = now
  /\ IdleSweep =>
       \A c \in Conns :
         (sessions[c] # 0 /\ now - sess[sessions[c]].lastActivity <= IDLE_LIMIT)
           => /\ sessions'[c] = sessions[c]
              /\ wsState'[c] = wsState[c]
              /\ sess'[sessions[c]] = sess[sessions[c]]

C28_CapturingSessionNotEvicted == [][C28_Step]_vars

\* C28 witness: past the idle limit since the last message, the loop has just
\* captured a frame for a session that is still registered and streaming
C28_Witness ==
  /\ out.kind = "frame" /\ now > IDLE_LIMIT
  /\ sessions[1] = out.s /\ wsState[1] = "OPEN"
  /\ sess[out.s].streaming /\ sess[out.s].lastActivity = now

\* C29: cleanupSession removes only the registry entry of the session it
\* tore down: when its page.close settles, an entry that by then belongs to
\* another session stays.
C29_Step ==
  \A t \in Running, ok \in BOOLEAN :
    PageCloseDone(t, ok)
      => \A c \in Conns :
           (sessions[c] # 0 /\ sessions[c] # t.s) => sessions'[c] = sessions[c]

C29_DeletesOwnEntryOnly == [][C29_Step]_vars

\* the calls of ensureBrowser that have not returned or thrown yet
InEnsure ==
  {t \in Running : t.fn = "create" /\ t.pc \in {"waitInit", "executablePath", "launch"}}

\* C30: every ensureBrowser call eventually returns a handle or throws,
\* provided each launch terminates: browserInitializing is set only while a
\* launch is in flight, and in the end no call is left inside ensureBrowser,
\* polling or launching.
C30_EnsureBrowserEnds ==
  /\ [](browserInitializing => Initializing >= 1)
  /\ <>[](InEnsure = {})

\* C30 witness: callers that polled the flag have left ensureBrowser, one
\* with the handle and one throwing, and no call is left inside
C30_Witness ==
  /\ InEnsure = {} /\ ~browserInitializing /\ nMsgs = MaxMsgs
  /\ \E t \in Running : t.arg = "waited" /\ t.pc = "newPage"
  /\ out.kind = "error"

\* C31: every control message other than create received on a connection
\* with a session sets lastActivity of that session to the present time,
\* whether or not its action is recognised or later fails; create and the
\* messages that are not control messages change lastActivity of no session.
C31_Step ==
  \A c \in Conns :
    /\ (sessions[c] # 0 /\ NonCreate(c)) => sess'[sessions[c]].lastActivity = now
    /\ (MsgCreate(c) \/ MsgIgnored(c))
         => \A s \in DOMAIN sess : sess'[s].lastActivity = sess[s].lastActivity

C31_ControlMessageTouches == [][C31_Step]_vars

\* C31 witness: after the clock advanced, a control message with an
\* unrecognised action has just been received and lastActivity is the
\* present time
C31_Witness ==
  /\ out.msg = "unknown" /\ out.ws = 1 /\ now > 0
  /\ sessions[1] # 0 /\ sess[sessions[1]].lastActivity = now

\* C32: the heartbeat never terminates a connection that answers every ping
\* with a pong before the next probe.  A pong sets isAlive, only a probe
\* clears it, and a probe that finds isAlive set leaves the socket and the
\* session of that client alone and starts no cleanup for it.
C32_Step ==
  \A c \in Conns :
    /\ Pong(c) => isAlive'[c]
    /\ (isAlive[c] /\ ~isAlive'[c]) => Heartbeat
    /\ (Heartbeat /\ wsState[c] # "CLOSED" /\ isAlive[c])
         => /\ wsState'[c] = wsState[c]
            /\ sessions'[c] = sessions[c]
            /\ \A t \in BagToSet(tasks') :
                 (t.fn = "cleanupSession" /\ t.arg = "heartbeat" /\ t.ws = c)
                   => CopiesIn(t, tasks') = CopiesIn(t, tasks)

C32_AnsweringClientKept == [][C32_Step]_vars

\* C32 witness: a probe has found the client alive: the ping is out, the
\* socket is open, the session registered and no cleanup runs
C32_Witness ==
  /\ ~isAlive[1] /\ wsState[1] = "OPEN" /\ sessions[1] # 0
  /\ \A t \in Running : t.fn # "cleanupSession"

\* C33: ensureBrowser never returns a handle that is disconnected at the
\* moment of return: every call of createSession that goes on to b.newPage()
\* holds the current browser, which is connected.  After a disconnection the
\* next call that finds no initialization under way launches a new browser,
\* and there is never more than one launch in flight.
C33_Step ==
  /\ \A t \in BagToSet(tasks') :
       (t.fn = "create" /\ t.pc = "newPage" /\ CopiesIn(t, tasks') > CopiesIn(t, tasks))
         => t.b # 0 /\ t.b = browser' /\ browserConnected'
  /\ \A c \in Conns :
       (MsgCreate(c) /\ ~AtCapacity /\ ~browserConnected /\ ~browserInitializing)
         => /\ browserInitializing'
            /\ \E t \in BagToSet(tasks') : t.pc = "executablePath" /\ t.ws = c

C33_ReturnedHandleConnected ==
  /\ [][C33_Step]_vars
  /\ [](Initializing <= 1)

\* C33 witness: the first browser disconnected and a later call launched the
\* second one, which ensureBrowser has returned connected
C33_Witness ==
  /\ browser = 2 /\ browserConnected /\ returned = {1, 2}
  /\ \E t \in Running : t.pc = "newPage" /\ t.b = 2

\* the launches of the shared browser of srv that are in flight
LgLaunching(srv) ==
  Copies({t \in Running : t.fn = "createLegacy" /\ t.arg = srv
                          /\ t.pc \in {"executablePath", "launch"}})

\* C34: in the servers that keep the engine in a module-level browser
\* variable, the shared browser is never launched twice concurrently: create
\* requests that arrive before the first launch completes cause one launch.
C34_OneSharedLaunch == \A srv \in {"server.js", "part_005", "part_007"} : LgLaunching(srv) <= 1

\* the close action, or a close handler, is over for session s of srv: its
\* page is closed and the registry has no entry for it
LgClosed(srv, s) ==
  /\ s \in DOMAIN legacy[srv].sess
  /\ legacy[srv].sess[s].pageClosed
  /\ s \notin legacy[srv].entry

\* the loop tasks of session s of srv
LgLoops(srv, s) == {t \in Running : t.fn = "streamLoop" /\ t.arg = srv /\ t.s = s}

\* C35: in part_007 and part_008, after the close action has closed the
\* page of a session and removed its registry entry, the loop task of that
\* session eventually terminates, even if the connection stays open.
C35_LoopEndsAfterClose ==
  \A srv \in Streamers, s \in 1..MaxMsgs : LgClosed(srv, s) ~> (LgLoops(srv, s) = {})

\* the pending timers of session id
PendingTimers(id) ==
  {k \in DOMAIN httpTimers : httpTimers[k].id = id /\ httpTimers[k].state = "pending"}

\* C36 (one timer): each session has at most one pending timeout timer
C36_OneTimerPerSession ==
  \A id \in DOMAIN httpSess : Cardinality(PendingTimers(id)) <= 1

\* C36: in the HTTP server with per-session timers, each session has at most
\* one pending timeout timer and no timer is pending for an id that is not
\* in the registry.
C36_TimersMatchRegistry ==
  /\ C36_OneTimerPerSession
  /\ \A id \in DOMAIN httpSess : PendingTimers(id) # {} => HttpKnown(id)


====
